---- MODULE Spec2Model ----
(***************************************************************************)
(* WAKEE.reloaded image-analysis API (src/app.py).                         *)
(*                                                                         *)
(* Three rate-limited POST routes served by one asyncio event loop:        *)
(*   /test    (5/minute)  echoes the request body,                         *)
(*   /predict (2/minute)  decoder -> classifier -> cascade -> generator,   *)
(*   /backup  (2/minute)  decoder -> classifier -> cascade -> fixed text.  *)
(*                                                                         *)
(* Scores are floats in the program; here they are integers in hundredths  *)
(* (2.5 is 250, 0.61 is 61), which keeps every comparison of the cascade   *)
(* exact.  A text is a sequence of string pieces (its concatenation is the *)
(* program's string), so that an f-string keeps its literal parts and its  *)
(* interpolated part apart.                                                *)
(***************************************************************************)
EXTENDS Integers, Sequences, FiniteSets, TLC

VARIABLES now, window, inflight, seen, arrivals, exchange

vars == <<now, window, inflight, seen, arrivals, exchange>>

(***************************************************************************)
(* Python values a handler can return.                                     *)
(***************************************************************************)
NoType == [major |-> "", minor |-> "", charset |-> ""]

MediaType(major, minor, charset) ==
    [major |-> major, minor |-> minor, charset |-> charset]

\* A str, an exception object, a starlette Response: every value carries all
\* fields, the unused ones empty.
PyStr(pieces) ==
    [type |-> "str", text |-> pieces, content |-> <<>>, media |-> NoType]

PyExc(name) ==
    [type |-> "exception", text |-> <<name>>, content |-> <<>>, media |-> NoType]

PyResponse(content, mediaType) ==
    [type |-> "Response", text |-> <<>>, content |-> content, media |-> mediaType]

\* str(exc): the description an exception prints as.
Description(name) ==
    CASE name = "UnidentifiedImageError" -> "cannot identify image file"
      [] name = "ClassificationError"    -> "classifier failed"
      [] name = "IndexError"             -> "list index out of range"
      [] name = "RecommendationError"    -> "generator failed"

\* One call of a collaborator, as the call trace of a request records it.
Call(fn, arg) == [fn |-> fn, arg |-> arg]

(***************************************************************************)
(* Thresholds of the cascade, in hundredths.                               *)
(***************************************************************************)
EngagementMin == 250

FrustrationMax == 50

ConfusionMax == 61

BoredomMax == 105

(***************************************************************************)
(* /predict: analyze_drift.                                                *)
(***************************************************************************)
\* The if/elif chain of analyze_drift: the argument it hands the generator,
\* "none" for the else branch.  cnn_predict is 1-indexed here.
PredictCascade(cnn_predict) ==
    LET cnn_boredom     == cnn_predict[1]
        cnn_confusion   == cnn_predict[2]
        cnn_engagement  == cnn_predict[3]
        cnn_frustration == cnn_predict[4]
    IN  IF cnn_engagement < EngagementMin THEN "disengagement"
        ELSE IF cnn_frustration > FrustrationMax THEN "frustration"
        ELSE IF cnn_confusion > ConfusionMax THEN "confusion"
        ELSE IF cnn_boredom > BoredomMax THEN "boredom"
        ELSE "none"

PredictNoDrift == <<"Good news", ",", " no cognitive drift recognized!">>

\* Mutant of PredictExcept: the exception object returned as it is.
PredictExceptRaw(exc) == exc

\* The try block of analyze_drift: the value returned or the exception raised,
\* with the collaborators called on the way.
PredictTry(body, recognised, cnnOut, llmUp) ==
    LET c1 == <<Call("Image.open", "body")>>
        c2 == Append(c1, Call("cnn.get_emotion", "image"))
    IN  IF body = <<>> \/ ~recognised
        THEN [raised |-> TRUE, val |-> PyExc("UnidentifiedImageError"), calls |-> c1]
        ELSE IF ~cnnOut.ok
        THEN [raised |-> TRUE, val |-> PyExc("ClassificationError"), calls |-> c2]
        ELSE IF Len(cnnOut.scores) < 4
        THEN [raised |-> TRUE, val |-> PyExc("IndexError"), calls |-> c2]
        ELSE LET label == PredictCascade(cnnOut.scores)
                 c3    == Append(c2, Call("llm.get_recommendation", label))
             IN  IF label = "none"
                 THEN [raised |-> FALSE, val |-> PyStr(PredictNoDrift), calls |-> c2]
                 ELSE IF llmUp
                 THEN [raised |-> FALSE,
                       val |-> PyStr(<<"recommendation for ", label>>), calls |-> c3]
                 ELSE [raised |-> TRUE, val |-> PyExc("RecommendationError"),
                       calls |-> c3]

\* The except clause: an f-string around str(exc).
PredictExcept(exc) ==
    PyStr(<<"Error in the process! Please use ", "/backup",
            " endpoint for now. Displaying error message:\n",
            Description(exc.text[1])>>)

analyze_drift(body, recognised, cnnOut, llmUp) ==
    LET t == PredictTry(body, recognised, cnnOut, llmUp)
    IN  [ret   |-> IF t.raised THEN PredictExcept(t.val) ELSE t.val,
         calls |-> t.calls]

(***************************************************************************)
(* /backup: backup_analysis.                                               *)
(***************************************************************************)
BackupDisengagement == <<"Disengagement", ":", " careful, you're losing focus!">>

BackupFrustration == <<"Frustration", ":", " maybe it's time for a pause?">>

BackupConfusion ==
    <<"Confusion", ":",
      " ask someone else's opinion on what you do not understand?">>

BackupBoredom == <<"Boredom", ":", " a short walk to get back into things!">>

\* Mutant of BackupNoDrift: /predict's wording.
BackupNoDriftAsPredict == PredictNoDrift

BackupNoDrift == <<"Good news", ":", " no cognitive drift recognized!">>

\* Mutant of BackupCascade: confusion tested before frustration.
BackupCascadeReordered(cnn_predict) ==
    LET cnn_boredom     == cnn_predict[1]
        cnn_confusion   == cnn_predict[2]
        cnn_engagement  == cnn_predict[3]
        cnn_frustration == cnn_predict[4]
    IN  IF cnn_engagement < EngagementMin THEN BackupDisengagement
        ELSE IF cnn_confusion > ConfusionMax THEN BackupConfusion
        ELSE IF cnn_frustration > FrustrationMax THEN BackupFrustration
        ELSE IF cnn_boredom > BoredomMax THEN BackupBoredom
        ELSE BackupNoDrift

\* The if/elif chain of backup_analysis: the text it returns.
BackupCascade(cnn_predict) ==
    LET cnn_boredom     == cnn_predict[1]
        cnn_confusion   == cnn_predict[2]
        cnn_engagement  == cnn_predict[3]
        cnn_frustration == cnn_predict[4]
    IN  IF cnn_engagement < EngagementMin THEN BackupDisengagement
        ELSE IF cnn_frustration > FrustrationMax THEN BackupFrustration
        ELSE IF cnn_confusion > ConfusionMax THEN BackupConfusion
        ELSE IF cnn_boredom > BoredomMax THEN BackupBoredom
        ELSE BackupNoDrift

BackupTry(body, recognised, cnnOut) ==
    LET c1 == <<Call("Image.open", "body")>>
        c2 == Append(c1, Call("cnn.get_emotion", "image"))
    IN  IF body = <<>> \/ ~recognised
        THEN [raised |-> TRUE, val |-> PyExc("UnidentifiedImageError"), calls |-> c1]
        ELSE IF ~cnnOut.ok
        THEN [raised |-> TRUE, val |-> PyExc("ClassificationError"), calls |-> c2]
        ELSE IF Len(cnnOut.scores) < 4
        THEN [raised |-> TRUE, val |-> PyExc("IndexError"), calls |-> c2]
        ELSE [raised |-> FALSE, val |-> PyStr(BackupCascade(cnnOut.scores)),
              calls |-> c2]

\* The except clause: "return exc", the exception object itself.
BackupExcept(exc) == exc

\* Mutant of backup_analysis: the route handing its label to the generator.
BackupViaGenerator(body, recognised, cnnOut, llmUp) ==
    analyze_drift(body, recognised, cnnOut, llmUp)

backup_analysis(body, recognised, cnnOut, llmUp) ==
    LET t == BackupTry(body, recognised, cnnOut)
    IN  [ret   |-> IF t.raised THEN BackupExcept(t.val) ELSE t.val,
         calls |-> t.calls]

(***************************************************************************)
(* /test: check_request.                                                   *)
(***************************************************************************)
OctetStream == MediaType("application", "octet-stream", "")

\* Mutant of HeaderOrDefault: the request's header ignored.
AlwaysDefault(declared) == OctetStream

\* request.headers.get("content-type", "application/octet-stream")
HeaderOrDefault(declared) == IF declared = NoType THEN OctetStream ELSE declared

check_request(body, declared) ==
    [ret |-> PyResponse(body, HeaderOrDefault(declared)), calls |-> <<>>]

(***************************************************************************)
(* What the framework sends for a handler's return value: every route is   *)
(* declared with response_class=HTMLResponse.                              *)
(***************************************************************************)
Utf8 == "utf-8"

\* Response.init_headers: a text/* media type that names no charset gets the
\* response's charset appended.
ContentTypeHeader(media) ==
    IF media.major = "text" /\ media.charset = ""
    THEN MediaType(media.major, media.minor, Utf8)
    ELSE media

Reply(status, text, bytes, ctype) ==
    [status |-> status, text |-> text, bytes |-> bytes, ctype |-> ctype]

\* A Response is sent as it is; a str is the body of an HTMLResponse; any
\* other object cannot be encoded as one, and the server answers 500.
Render(ret) ==
    CASE ret.type = "Response" ->
           Reply(200, <<>>, ret.content, ContentTypeHeader(ret.media))
      [] ret.type = "str" ->
           Reply(200, ret.text, <<>>, ContentTypeHeader(MediaType("text", "html", "")))
      [] OTHER ->
           Reply(500, <<"Internal Server Error">>, <<>>,
                 ContentTypeHeader(MediaType("text", "plain", "")))

(***************************************************************************)
(* Admission control: limiter = Limiter(key_func=get_remote_address), one  *)
(* budget per route and per client address, counted in a window of one     *)
(* minute.                                                                 *)
(***************************************************************************)
Routes == {"/test", "/predict", "/backup"}

Clients == {"10.0.0.1", "10.0.0.2"}

TestBudget == 5

PredictBudget == 2

BackupBudget == 2

\* Mutant of MaxRequests: /test's decorator copied onto every route.
MaxRequestsCopied(route) == TestBudget

\* The @limiter.limit("N/minute") of each route.
MaxRequests(route) ==
    CASE route = "/test"    -> TestBudget
      [] route = "/predict" -> PredictBudget
      [] route = "/backup"  -> BackupBudget

\* Clock ticks in one minute, the last tick of the clock, and the requests one
\* run receives.
TicksPerWindow == 1

MaxTime == 1

MaxArrivals == 6

\* Mutant of Period: limits per hour.
PeriodHour(route) == 60 * TicksPerWindow

\* The period of each route's limit: "/minute" on all three.
Period(route) ==
    CASE route = "/test"    -> TicksPerWindow
      [] route = "/predict" -> TicksPerWindow
      [] route = "/backup"  -> TicksPerWindow

\* The requests that can be in their handlers at once.
Slots == {1, 2}

\* The (route, client) pairs that send requests: one client on every route,
\* and a second client on /backup.
Traffic ==
    {<<"/test", "10.0.0.1">>, <<"/predict", "10.0.0.1">>,
     <<"/backup", "10.0.0.1">>, <<"/backup", "10.0.0.2">>}

\* The window logic is the limiter library's and not part of app.py; the five
\* definitions below follow the Admission Controller of the specification:
\* reject when the count of the current window has reached max_requests,
\* count the request otherwise, and on rollover reset the count and anchor
\* the window anew.
\* ClientWindowState of a client that has sent nothing yet.
NoWindow == [count |-> 0, start |-> -1]

Expired(w, route, t) == w.start = -1 \/ t >= w.start + Period(route)

\* Window rollover: the count back to zero, the window anchored at t.
Rollover(w, route, t) ==
    IF Expired(w, route, t) THEN [count |-> 0, start |-> t] ELSE w

\* The admission decision on the current window.
Admits(w, route) == w.count < MaxRequests(route)

\* The window after the decision: an admitted request is counted.
Counted(w, route) ==
    IF Admits(w, route) THEN [w EXCEPT !.count = w.count + 1] ELSE w

\* Mutant of AfterCheck: the limit checked, the handler run all the same.
AfterCheckIgnored(admitted) == "body"

\* Where a request goes after the check: into the handler, or to the
\* RateLimitExceeded handler registered on the app.
AfterCheck(admitted) == IF admitted THEN "body" ELSE "rejected"

\* _rate_limit_exceeded_handler's response.
RateLimitReply(route) ==
    Reply(429, <<"Rate limit exceeded">>, <<>>, MediaType("application", "json", ""))

(***************************************************************************)
(* Inputs.                                                                 *)
(***************************************************************************)
Bodies == {<<>>, <<72, 105>>, <<255, 216, 255>>}

DeclaredTypes ==
    {NoType, MediaType("text", "plain", ""), MediaType("image", "jpeg", ""),
     MediaType("text", "plain", "latin-1")}

\* Scores around each threshold, four to a vector in the classifier's order:
\* boredom, confusion, engagement, frustration.
ScoreVectors ==
    {<<b, c, e, f>> : b \in {0, BoredomMax, BoredomMax + 1},
                      c \in {0, ConfusionMax, ConfusionMax + 1},
                      e \in {EngagementMin - 1, EngagementMin, 400},
                      f \in {0, FrustrationMax, FrustrationMax + 1}}

ShortScores == {<<>>, <<106>>, <<106, 62>>, <<106, 62, 400>>}

LongScores == {<<106, 0, 400, 0, 7>>}

CnnFailure == [ok |-> FALSE, scores |-> <<>>]

CnnOutputs ==
    {CnnFailure} \cup
    {[ok |-> TRUE, scores |-> s] : s \in ScoreVectors \cup ShortScores \cup LongScores}

Inputs(body, declared, recognised, cnnOut, llmUp) ==
    [body |-> body, declared |-> declared, recognised |-> recognised,
     cnnOut |-> cnnOut, llmUp |-> llmUp]

NoInputs == Inputs(<<>>, NoType, FALSE, CnnFailure, FALSE)

\* What a route's handler is given: /test reads the body and the content-type
\* header, the two analysis routes the body and their collaborators' answers.
RouteInputs(route) ==
    IF route = "/test"
    THEN {Inputs(b, d, FALSE, CnnFailure, FALSE) : b \in Bodies, d \in DeclaredTypes}
    ELSE {Inputs(b, NoType, r, c, l) :
            b \in Bodies, r \in BOOLEAN, c \in CnnOutputs, l \in BOOLEAN}

\* The inputs of the server under load: per route one request that succeeds
\* and one that fails (or, on /test, has no body).
LoadInputs(route) ==
    IF route = "/test"
    THEN {Inputs(<<>>, NoType, FALSE, CnnFailure, FALSE),
          Inputs(<<72, 105>>, MediaType("text", "plain", ""), FALSE, CnnFailure, FALSE)}
    ELSE {Inputs(<<>>, NoType, FALSE, CnnFailure, FALSE),
          Inputs(<<255, 216, 255>>, NoType, TRUE,
                 [ok |-> TRUE, scores |-> <<106, 0, 400, 0>>], TRUE)}

\* The route table: @app.post(path) on each handler.
Handler(route, in) ==
    CASE route = "/test"    -> check_request(in.body, in.declared)
      [] route = "/predict" ->
           analyze_drift(in.body, in.recognised, in.cnnOut, in.llmUp)
      [] route = "/backup"  ->
           backup_analysis(in.body, in.recognised, in.cnnOut, in.llmUp)

(***************************************************************************)
(* State.                                                                  *)
(*   now       the clock, in ticks                                         *)
(*   window    ClientWindowState per route and client                      *)
(*   inflight  the requests suspended in their handlers, one per slot      *)
(*   exchange  the last request answered, with what it was given, what its *)
(*             handler returned and called, and the reply sent             *)
(* and, to state the properties (the program does not keep them):          *)
(*   seen      per route and client, the minute that began with the        *)
(*             client's first request not inside an earlier one: when it   *)
(*             began, the requests received in it, whether one of them was *)
(*             turned away, and whether one was in the minute before       *)
(*   arrivals  the requests received so far                                *)
(***************************************************************************)
Idle == [pc |-> "idle", client |-> "", route |-> "", admitted |-> FALSE]

NoExchange ==
    [route |-> "", admitted |-> FALSE, handled |-> FALSE,
     in |-> NoInputs, ret |-> PyStr(<<>>), calls |-> <<>>,
     reply |-> Reply(0, <<>>, <<>>, NoType)]

Unseen == [since |-> -1, tries |-> 0, denied |-> FALSE, deniedBefore |-> FALSE]

Init ==
    /\ now = 0
    /\ window = [r \in Routes |-> [c \in Clients |-> NoWindow]]
    /\ inflight = [s \in Slots |-> Idle]
    /\ seen = [r \in Routes |-> [c \in Clients |-> Unseen]]
    /\ arrivals = 0
    /\ exchange = NoExchange

\* The exchange of a request the limiter turned away: the RateLimitExceeded
\* handler's reply, no route logic.
Rejected(r) ==
    [route |-> r, admitted |-> FALSE, handled |-> FALSE,
     in |-> NoInputs, ret |-> PyStr(<<>>), calls |-> <<>>,
     reply |-> RateLimitReply(r)]

\* The exchange a route's handler makes of its inputs.
Served(r, admitted, in) ==
    LET h == Handler(r, in)
    IN  [route |-> r, admitted |-> admitted, handled |-> TRUE,
         in |-> in, ret |-> h.ret, calls |-> h.calls, reply |-> Render(h.ret)]

\* The minute a request at time t falls in, and what became of the request.
Observe(g, t, admitted) ==
    IF g.since = -1 \/ t - g.since >= TicksPerWindow
    THEN [since |-> t, tries |-> 1, denied |-> ~admitted, deniedBefore |-> g.denied]
    ELSE [g EXCEPT !.tries = g.tries + 1, !.denied = g.denied \/ ~admitted]

\* A request of client c to route r reaches the limiter, which decides on it in
\* one step of the event loop: the request enters its handler up to
\* "await request.body()", or is answered 429.
Arrive(s, c, r) ==
    /\ inflight[s].pc = "idle"
    /\ \A z \in Slots : z < s => inflight[z].pc # "idle"
    /\ <<r, c>> \in Traffic
    /\ arrivals < MaxArrivals
    /\ arrivals' = arrivals + 1
    /\ LET w        == Rollover(window[r][c], r, now)
           admitted == Admits(w, r)
       IN  /\ window' = [window EXCEPT ![r][c] = Counted(w, r)]
           /\ seen' = [seen EXCEPT ![r][c] = Observe(@, now, admitted)]
           /\ IF AfterCheck(admitted) = "body"
              THEN /\ inflight' = [inflight EXCEPT ![s] =
                                     [pc |-> "body", client |-> c, route |-> r,
                                      admitted |-> admitted]]
                   /\ UNCHANGED exchange
              ELSE /\ exchange' = Rejected(r)
                   /\ UNCHANGED inflight
    /\ UNCHANGED now

\* The handler resumes from "await request.body()" and runs to its return.
Handle(s) ==
    /\ inflight[s].pc = "body"
    /\ \E in \in LoadInputs(inflight[s].route) :
         exchange' = Served(inflight[s].route, inflight[s].admitted, in)
    /\ inflight' = [inflight EXCEPT ![s] = Idle]
    /\ UNCHANGED <<now, window, seen, arrivals>>

Tick ==
    /\ now < MaxTime
    /\ now' = now + 1
    /\ UNCHANGED <<window, inflight, seen, arrivals, exchange>>

Next ==
    \/ \E s \in Slots, c \in Clients, r \in Routes : Arrive(s, c, r)
    \/ \E s \in Slots : Handle(s)
    \/ Tick

Spec == Init /\ [][Next]_vars

\* The first request a fresh server admits, to each route and over the whole
\* input space.
ServeAdmitted(c, r) ==
    /\ exchange = NoExchange
    /\ Admits(Rollover(window[r][c], r, now), r)
    /\ \E in \in RouteInputs(r) : exchange' = Served(r, TRUE, in)
    /\ UNCHANGED <<now, window, inflight, seen, arrivals>>

PipelineNext == \E c \in Clients, r \in Routes : ServeAdmitted(c, r)

PipelineSpec == Init /\ [][PipelineNext]_vars

(***************************************************************************)
(* Properties.                                                             *)
(***************************************************************************)
Range(f) == {f[i] : i \in DOMAIN f}

Client1 == "10.0.0.1"

\* The cascade as the specification states it: an ordered list of labels, each
\* with its test, the first that fires winning.
Order == <<"Disengagement", "Frustration", "Confusion", "Boredom", "None">>

Fires(label, sv) ==
    CASE label = "Disengagement" -> sv[3] < 250
      [] label = "Frustration"   -> sv[4] > 50
      [] label = "Confusion"     -> sv[2] > 61
      [] label = "Boredom"       -> sv[1] > 105
      [] label = "None"          -> TRUE

DriftLabel(sv) ==
    Order[CHOOSE i \in 1..5 :
            /\ Fires(Order[i], sv)
            /\ \A j \in 1..(i - 1) : ~Fires(Order[j], sv)]

IsGeneratorCall(call) == call.fn = "llm.get_recommendation"

\* The label a /predict exchange chose: what it handed the generator.
PredictChoice(x) ==
    LET asked == SelectSeq(x.calls, IsGeneratorCall)
    IN  IF asked = <<>> THEN "None"
        ELSE CASE asked[1].arg = "disengagement" -> "Disengagement"
               [] asked[1].arg = "frustration"   -> "Frustration"
               [] asked[1].arg = "confusion"     -> "Confusion"
               [] asked[1].arg = "boredom"       -> "Boredom"
               [] OTHER                          -> "?"

\* The label a /backup exchange chose: the one its text opens with.
BackupChoice(x) ==
    IF x.ret.type # "str" \/ x.ret.text = <<>> THEN "?"
    ELSE IF x.ret.text[1] = "Good news" THEN "None"
    ELSE x.ret.text[1]

DecoderFails(in) == in.body = <<>> \/ ~in.recognised

ClassifierFails(in) ==
    ~DecoderFails(in) /\ (~in.cnnOut.ok \/ Len(in.cnnOut.scores) < 4)

\* The exchange got four scores out of its image.
Classified(x) ==
    /\ x.handled
    /\ x.route \in {"/predict", "/backup"}
    /\ ~DecoderFails(x.in)
    /\ ~ClassifierFails(x.in)

GeneratorFails(x) ==
    /\ Classified(x)
    /\ SelectSeq(x.calls, IsGeneratorCall) # <<>>
    /\ ~x.in.llmUp

\* C1: on every ScoreVector /predict and /backup choose the label of the
\* first-match-wins cascade (Disengagement, Frustration, Confusion, Boredom,
\* None), one of the five, and the same on both routes.
C1_SameCascade ==
    Classified(exchange) =>
        LET sv == exchange.in.cnnOut.scores
        IN  /\ exchange.route = "/predict" =>
                 PredictChoice(exchange) = DriftLabel(sv)
            /\ exchange.route = "/backup" =>
                 BackupChoice(exchange) = DriftLabel(sv)
            /\ DriftLabel(sv) \in Range(Order)
            /\ PredictChoice(Served("/predict", TRUE, exchange.in))
                 = BackupChoice(Served("/backup", TRUE, exchange.in))

\* A vector on which three tests fire and the first of them wins.
C1_Witness ==
    /\ Classified(exchange)
    /\ exchange.route = "/backup"
    /\ exchange.in.cnnOut.scores = <<106, 62, 250, 51>>
    /\ BackupChoice(exchange) = "Frustration"

\* C4: every failure of the decoder, the classifier (a short score list
\* included) or the generator on /predict is answered 200 with a text that
\* mentions /backup and names the failure; /predict never answers 500.
C4_PredictFailuresAnswered ==
    (exchange.handled /\ exchange.route = "/predict") =>
        /\ exchange.reply.status = 200
        /\ exchange.ret.type = "str"
        /\ (DecoderFails(exchange.in) \/ ClassifierFails(exchange.in)
              \/ GeneratorFails(exchange)) =>
             /\ "/backup" \in Range(exchange.reply.text)
             /\ exchange.reply.text[Len(exchange.reply.text)] =
                  (CASE DecoderFails(exchange.in) ->
                          "cannot identify image file"
                     [] ClassifierFails(exchange.in) /\ ~exchange.in.cnnOut.ok ->
                          "classifier failed"
                     [] ClassifierFails(exchange.in) /\ exchange.in.cnnOut.ok ->
                          "list index out of range"
                     [] OTHER -> "generator failed")

\* Three scores instead of four.
C4_Witness ==
    /\ exchange.handled
    /\ exchange.route = "/predict"
    /\ exchange.in.cnnOut = [ok |-> TRUE, scores |-> <<106, 62, 400>>]
    /\ ClassifierFails(exchange.in)
    /\ exchange.reply.status = 200

\* C5, as claimed: every failure of the decoder or the classifier on /backup
\* is answered normally, with the exception's description as the text.
C5_BackupFailureIsText ==
    (/\ exchange.handled
     /\ exchange.route = "/backup"
     /\ (DecoderFails(exchange.in) \/ ClassifierFails(exchange.in))) =>
        /\ exchange.reply.status = 200
        /\ exchange.ret.type = "str"
        /\ exchange.reply.text \in
             {<<"cannot identify image file">>, <<"classifier failed">>,
              <<"list index out of range">>}

\* C6, as claimed: when the label is None, /backup's body is /predict's.
C6_SameNoDrift ==
    (Classified(exchange) /\ DriftLabel(exchange.in.cnnOut.scores) = "None") =>
        Served("/backup", TRUE, exchange.in).reply.text
          = Served("/predict", TRUE, exchange.in).reply.text

\* C6, amended: when the label is None each route answers 200 with a fixed
\* text of its own, "Good news, no cognitive drift recognized!" on /predict
\* and "Good news: no cognitive drift recognized!" on /backup; the two differ
\* in the one punctuation mark after "Good news".
C6_NoDriftTexts ==
    (Classified(exchange) /\ DriftLabel(exchange.in.cnnOut.scores) = "None") =>
        /\ exchange.reply.status = 200
        /\ exchange.route = "/predict" =>
             exchange.reply.text =
               <<"Good news", ",", " no cognitive drift recognized!">>
        /\ exchange.route = "/backup" =>
             exchange.reply.text =
               <<"Good news", ":", " no cognitive drift recognized!">>

C6_Witness ==
    /\ Classified(exchange)
    /\ exchange.route = "/backup"
    /\ DriftLabel(exchange.in.cnnOut.scores) = "None"
    /\ exchange.in.cnnOut.scores = <<105, 61, 250, 50>>

\* C7: /backup never calls the generator; on a ScoreVector it answers one of
\* five fixed texts, the one its label keys, and answers the same whether the
\* generator is up or down.
C7_BackupWithoutGenerator ==
    (exchange.handled /\ exchange.route = "/backup") =>
        /\ SelectSeq(exchange.calls, IsGeneratorCall) = <<>>
        /\ Served("/backup", TRUE, [exchange.in EXCEPT !.llmUp = ~@]).reply
             = exchange.reply
        /\ Classified(exchange) =>
             /\ exchange.reply.status = 200
             /\ exchange.reply.text =
                  (CASE DriftLabel(exchange.in.cnnOut.scores) = "Disengagement" ->
                          BackupDisengagement
                     [] DriftLabel(exchange.in.cnnOut.scores) = "Frustration" ->
                          BackupFrustration
                     [] DriftLabel(exchange.in.cnnOut.scores) = "Confusion" ->
                          BackupConfusion
                     [] DriftLabel(exchange.in.cnnOut.scores) = "Boredom" ->
                          BackupBoredom
                     [] OTHER -> BackupNoDrift)

\* Boredom, with the generator down.
C7_Witness ==
    /\ Classified(exchange)
    /\ exchange.route = "/backup"
    /\ ~exchange.in.llmUp
    /\ exchange.reply.text = BackupBoredom

Budget(route) ==
    CASE route = "/test"    -> 5
      [] route = "/predict" -> 2
      [] route = "/backup"  -> 2

\* This step receives a request of client c to route r.
ArrivedAt(r, c) == arrivals' = arrivals + 1 /\ seen'[r][c] # seen[r][c]

\* This step lets a request into its handler.
EntersHandler ==
    \E s \in Slots : inflight[s].pc = "idle" /\ inflight'[s].pc = "body"

\* C2: in one minute the first max_requests requests of a client to a route
\* are admitted and every later one is answered 429, whatever other clients
\* and other routes have received.
C2_BudgetPerClientAndRoute ==
    [][\A r \in Routes, c \in Clients :
         ArrivedAt(r, c) =>
           /\ seen'[r][c].tries <= Budget(r) =>
                (EntersHandler /\ exchange' = exchange)
           /\ seen'[r][c].tries > Budget(r) =>
                /\ ~EntersHandler
                /\ exchange'.route = r
                /\ exchange'.reply.status = 429]_vars

\* /predict exhausted and its third request turned away, /backup admitting the
\* same client in the same minute.
C2_Witness ==
    /\ seen["/predict"][Client1].tries = 3
    /\ seen["/predict"][Client1].denied
    /\ window["/predict"][Client1].count = 2
    /\ seen["/backup"][Client1].since = seen["/predict"][Client1].since
    /\ ~seen["/backup"][Client1].denied
    /\ \E s \in Slots :
         inflight[s] = [pc |-> "body", client |-> Client1, route |-> "/backup",
                        admitted |-> TRUE]

\* C3: a request the limiter rejects is answered 429 and runs no route logic:
\* no decoder, classifier or generator call is made for it, and only admitted
\* requests are ever in a handler.
C3_RejectedRunsNothing ==
    /\ \A s \in Slots : inflight[s].pc = "body" => inflight[s].admitted
    /\ exchange.handled => exchange.admitted
    /\ (exchange.route # "" /\ ~exchange.admitted) =>
         /\ ~exchange.handled
         /\ exchange.calls = <<>>
         /\ exchange.reply.status = 429

C3_Witness ==
    /\ exchange.route = "/predict"
    /\ ~exchange.admitted
    /\ exchange.reply.status = 429
    /\ seen["/predict"][Client1].tries = 3

\* C10: the first request after a client's minute on a route has run out
\* starts a new window at its own time with the count back at zero, and is
\* admitted; a client turned away in the minute before gets its whole budget
\* again.
C10_RolloverRestoresBudget ==
    [][\A r \in Routes, c \in Clients :
         ArrivedAt(r, c) =>
           /\ (seen[r][c].since # -1
                 /\ now - seen[r][c].since >= TicksPerWindow) =>
                /\ EntersHandler
                /\ window'[r][c] = [count |-> 1, start |-> now]
           /\ seen'[r][c].deniedBefore =>
                (EntersHandler <=> seen'[r][c].tries <= Budget(r))]_vars

\* Turned away in one minute, admitted twice in the next.
C10_Witness ==
    /\ seen["/predict"][Client1].deniedBefore
    /\ seen["/predict"][Client1].tries = 2
    /\ window["/predict"][Client1] = [count |-> 2, start |-> TicksPerWindow]

====
